---- MODULE Spec2Model ----
(***************************************************************************)
(* A model of the coding agent of src/agent/code_agent/agent.py: the three *)
(* repository tools (list_files, read_file, update_file), the graph built  *)
(* in run_coding_agent (agent -> tools -> agent ... -> create_pr -> END)   *)
(* and the repository host the tools talk to.                              *)
(*                                                                         *)
(* Strings the code only compares or passes on are TLA+ strings; strings   *)
(* the code takes apart (the issue title) are sequences of one-character   *)
(* strings; a formatted string (an f-string) is a record holding its fixed *)
(* prefix ("tag") and the values formatted into it.  File paths are        *)
(* sequences of numbered path components, so that the host's listing order *)
(* (by name) is the order of the numbers.                                  *)
(***************************************************************************)
EXTENDS Integers, Sequences, FiniteSets, TLC

(***************************************************************************)
(* Bounds of the model.                                                    *)
(***************************************************************************)
MaxTurns == 2
MaxCalls == 2
MaxWide == 26

(***************************************************************************)
(* Program constants.                                                      *)
(***************************************************************************)
MaxListed == 50
MaxSlug == 30

(***************************************************************************)
(* Sequences and characters.                                               *)
(***************************************************************************)
Take(s, n) == SubSeq(s, 1, IF Len(s) < n THEN Len(s) ELSE n)

IsPrefix(p, s) == Len(p) <= Len(s) /\ SubSeq(s, 1, Len(p)) = p

UpperCase == {"F", "B"}
LowerCase == {"f", "i", "x", "b", "u", "g"}
Digits == {"1", "2"}
Other == {" ", "-", "/"}

\* str.lower() on one character
Lower(c) == CASE c = "F" -> "f" [] c = "B" -> "b" [] OTHER -> c

\* str.isalnum() on one character
IsAlnum(c) == c \in UpperCase \cup LowerCase \cup Digits

\* "".join(c if c.isalnum() else "-" for c in issue_title.lower())[:30]
SafeTitle(title) ==
    Take([i \in 1..Len(title) |->
             IF IsAlnum(Lower(title[i])) THEN Lower(title[i]) ELSE "-"], MaxSlug)

\* f"agent/fix-{safe_title}"
BranchName(title) == <<"agent/fix-">> \o SafeTitle(title)

(***************************************************************************)
(* The repository host.  A repository is a set of commits, each with its   *)
(* tree (file path -> content), and the branch heads:                      *)
(*   host.commits : commit sha -> tree,  host.heads : branch -> commit sha *)
(* A blob's sha is determined by its content.  A host call either returns  *)
(* or raises; "status" is "ok" or the error it raises.                     *)
(***************************************************************************)
DefaultBranch == <<"main">>

RepoName == "acme/widgets"

BlobSha(content) == content

Last(p) == p[Len(p)]

IsDir(tree, d) == \E p \in DOMAIN tree : Len(p) > Len(d) /\ IsPrefix(d, p)

\* the entries directly under directory d: files and sub-directories
Children(tree, d) ==
    {SubSeq(p, 1, Len(d) + 1) : p \in {q \in DOMAIN tree : Len(q) > Len(d) /\ IsPrefix(d, q)}}

Entry(tree, p) ==
    IF p \in DOMAIN tree
    THEN [path |-> p, type |-> "file", sha |-> BlobSha(tree[p]), content |-> tree[p]]
    ELSE [path |-> p, type |-> "dir", sha |-> "", content |-> ""]

\* the host lists a directory by name: entry i is the one with i - 1 entries
\* before it
Listing(tree, S) ==
    [i \in 1..Cardinality(S) |->
        Entry(tree, CHOOSE p \in S : Cardinality({q \in S : Last(q) < Last(p)}) = i - 1)]

NoEntry == [path |-> <<>>, type |-> "none", sha |-> "", content |-> ""]

TreeAt(h, ref) == h.commits[h.heads[ref]]

\* repo.get_contents(path, ref): a list for a directory, one ContentFile for a
\* file, 404 for a path or a ref that does not exist
GetContents(h, path, ref) ==
    IF ref \notin DOMAIN h.heads
    THEN [status |-> "404", kind |-> "none", entries |-> <<>>, file |-> NoEntry]
    ELSE LET tree == TreeAt(h, ref) IN
         IF path \in DOMAIN tree
         THEN [status |-> "ok", kind |-> "file", entries |-> <<>>, file |-> Entry(tree, path)]
         ELSE IF IsDir(tree, path)
         THEN [status |-> "ok", kind |-> "dir",
               entries |-> Listing(tree, Children(tree, path)), file |-> NoEntry]
         ELSE [status |-> "404", kind |-> "none", entries |-> <<>>, file |-> NoEntry]

\* g.get_repo(repo_full_name)
GetRepo(name) == IF name = RepoName THEN "ok" ELSE "404"

\* repo.get_branch(branch)
GetBranch(h, branch) ==
    IF branch \in DOMAIN h.heads
    THEN [status |-> "ok", sha |-> h.heads[branch]]
    ELSE [status |-> "404", sha |-> 0]

(***************************************************************************)
(* The string a tool or a node produces: the fixed prefix of the f-string  *)
(* and the values formatted into it.                                       *)
(***************************************************************************)
Content(tag, path, branch, text, files) ==
    [tag |-> tag, path |-> path, branch |-> branch, text |-> text, files |-> files]

Text(t) == Content("", <<>>, <<>>, t, <<>>)

\* what a tool call did: raised to its caller or returned content; the host
\* after it, and the host calls it issued, in order
Outcome(raised, content, h, calls) ==
    [raised |-> raised, content |-> content, host |-> h, calls |-> calls]

HostCall(name, path, branch, status) ==
    [name |-> name, path |-> path, branch |-> branch, status |-> status]

\* a host failure injected into a tool call: the host call number n of kind
\* "at" fails ("none": no injected failure), raising a GithubException (gh, an
\* HTTP error status) or another exception (a connection error)
NoFail == [at |-> "none", n |-> 0, gh |-> TRUE]

FailAt(at, n, gh) == [at |-> at, n |-> n, gh |-> gh]

(***************************************************************************)
(* list_files                                                              *)
(***************************************************************************)
\* the position of the first directory of the queue, 0 when it holds none
FirstDir(contents) ==
    IF \A i \in 1..Len(contents) : contents[i].type # "dir" THEN 0
    ELSE CHOOSE i \in 1..Len(contents) :
            /\ contents[i].type = "dir"
            /\ \A j \in 1..(i - 1) : contents[j].type # "dir"

Push(contents, entries) == entries \o contents

\* line 42: contents.extend(repo.get_contents(file_content.path))
Enqueue(contents, entries) == contents \o entries

\* the while loop of list_files: contents is the queue, files the paths found,
\* dirs the directories get_contents has been called for so far.  The
\* iterations that pop the files in front of the next directory are taken
\* together: each pops the head of the queue and appends its path to files
RECURSIVE ListLoop(_, _, _, _, _)
ListLoop(h, contents, files, dirs, fail) ==
    LET d == FirstDir(contents) IN
    IF d = 0
    THEN [status |-> "ok", dirs |-> dirs,
          files |-> files \o [i \in 1..Len(contents) |-> contents[i].path]]
    ELSE LET found == files \o [i \in 1..(d - 1) |-> contents[i].path]
             file_content == contents[d]
             queue == SubSeq(contents, d + 1, Len(contents))
             asked == Append(dirs, file_content.path)
         IN IF fail.at = "get_contents" /\ fail.n = Len(asked)
            THEN [status |-> "500", dirs |-> asked, files |-> found]
            ELSE LET sub == GetContents(h, file_content.path, DefaultBranch) IN
                 IF sub.status # "ok"
                 THEN [status |-> sub.status, dirs |-> asked, files |-> found]
                 ELSE ListLoop(h, Enqueue(queue, sub.entries), found, asked, fail)

Uncut(files) == files

\* line 45: "\n".join(files[:50])
Joined(files) == Take(files, MaxListed)

\* the get_contents calls of list_files: all answered but, on an error, the last
Asked(dirs, status) ==
    [i \in 1..Len(dirs) |->
        HostCall("get_contents", dirs[i], DefaultBranch,
                 IF i = Len(dirs) THEN status ELSE "ok")]

list_files(h, repo_full_name, path, fail) ==
    IF fail.at = "get_repo" \/ GetRepo(repo_full_name) # "ok"
    THEN Outcome(TRUE, Text("get_repo"), h, <<>>)
    ELSE IF fail.at = "get_contents" /\ fail.n = 1
    THEN Outcome(FALSE, Content("Error listing files: ", <<>>, <<>>, "500", <<>>), h,
                 Asked(<<path>>, "500"))
    ELSE LET first == GetContents(h, path, DefaultBranch) IN
         IF first.status # "ok"
         THEN Outcome(FALSE, Content("Error listing files: ", <<>>, <<>>, first.status, <<>>), h,
                      Asked(<<path>>, first.status))
         ELSE IF first.kind = "file"
         \* a single ContentFile has no pop(): AttributeError, caught
         THEN Outcome(FALSE, Content("Error listing files: ", <<>>, <<>>, "AttributeError", <<>>), h,
                      Asked(<<path>>, "ok"))
         ELSE LET r == ListLoop(h, first.entries, <<>>, <<path>>, fail) IN
              IF r.status # "ok"
              THEN Outcome(FALSE, Content("Error listing files: ", <<>>, <<>>, r.status, <<>>), h,
                           Asked(r.dirs, r.status))
              ELSE Outcome(FALSE, Content("", <<>>, <<>>, "", Joined(r.files)), h,
                           Asked(r.dirs, "ok"))

(***************************************************************************)
(* read_file                                                               *)
(***************************************************************************)
read_file(h, repo_full_name, file_path, fail) ==
    IF fail.at = "get_repo" \/ GetRepo(repo_full_name) # "ok"
    THEN Outcome(TRUE, Text("get_repo"), h, <<>>)
    ELSE IF fail.at = "get_contents"
    THEN Outcome(FALSE, Content("Error reading file: ", <<>>, <<>>, "500", <<>>), h, <<>>)
    ELSE LET contents == GetContents(h, file_path, DefaultBranch) IN
         IF contents.status # "ok"
         THEN Outcome(FALSE, Content("Error reading file: ", <<>>, <<>>, contents.status, <<>>), h, <<>>)
         ELSE IF contents.kind = "dir"
         \* a list has no decoded_content: AttributeError, caught
         THEN Outcome(FALSE, Content("Error reading file: ", <<>>, <<>>, "AttributeError", <<>>), h, <<>>)
         ELSE Outcome(FALSE, Text(contents.file.content), h, <<>>)

(***************************************************************************)
(* update_file                                                             *)
(***************************************************************************)
\* a new commit on branch with the given tree
Commit(h, branch, tree) ==
    LET sha == Cardinality(DOMAIN h.commits) + 1 IN
    [commits |-> h.commits @@ (sha :> tree),
     heads |-> [h.heads EXCEPT ![branch] = sha]]

\* repo.create_git_ref(ref=f"refs/heads/{branch}", sha=sha)
CreateGitRef(h, branch, sha) ==
    IF branch \in DOMAIN h.heads
    THEN [status |-> "422", host |-> h]
    ELSE [status |-> "ok", host |-> [h EXCEPT !.heads = h.heads @@ (branch :> sha)]]

\* repo.update_file(path, message, content, sha, branch=branch): the host
\* rejects a sha that is not the file's current blob sha
HostUpdateFile(h, path, content, sha, branch) ==
    IF branch \notin DOMAIN h.heads THEN [status |-> "404", host |-> h]
    ELSE LET tree == TreeAt(h, branch) IN
         IF path \notin DOMAIN tree THEN [status |-> "404", host |-> h]
         ELSE IF BlobSha(tree[path]) # sha THEN [status |-> "409", host |-> h]
         ELSE [status |-> "ok", host |-> Commit(h, branch, [tree EXCEPT ![path] = content])]

\* repo.create_file(path, message, content, branch=branch): the host rejects
\* a path that exists (a file needs its sha, a directory cannot be written)
HostCreateFile(h, path, content, branch) ==
    IF branch \notin DOMAIN h.heads THEN [status |-> "404", host |-> h]
    ELSE LET tree == TreeAt(h, branch) IN
         IF \/ path \in DOMAIN tree
            \/ IsDir(tree, path)
            \/ \E q \in DOMAIN tree : Len(q) < Len(path) /\ IsPrefix(q, path)
         THEN [status |-> "422", host |-> h]
         ELSE [status |-> "ok", host |-> Commit(h, branch, tree @@ (path :> content))]

Step(status, raised_gh, h, calls) ==
    [status |-> status, gh |-> raised_gh, host |-> h, calls |-> calls]

AssumeBranch(h, branch, fail) == Step("ok", TRUE, h, <<>>)

AlwaysCreate(h, branch, fail) ==
    LET source == GetBranch(h, DefaultBranch)
        made == CreateGitRef(h, branch, source.sha)
    IN Step(made.status, TRUE, made.host,
            <<HostCall("get_branch", <<>>, DefaultBranch, source.status),
              HostCall("create_git_ref", <<>>, branch, made.status)>>)

\* lines 76-80: get_branch, and on a GithubException the branch is created at
\* the default branch's head.  status "ok", or the error that leaves the
\* outer try
EnsureBranch(h, branch, fail) ==
    LET probe == IF fail.at = "get_branch" THEN [status |-> "500", sha |-> 0]
                 ELSE GetBranch(h, branch)
        c1 == <<HostCall("get_branch", <<>>, branch, probe.status)>>
    IN
    IF probe.status = "ok" THEN Step("ok", TRUE, h, c1)
    ELSE IF fail.at = "get_branch" /\ ~fail.gh THEN Step("ConnectionError", FALSE, h, c1)
    ELSE
    LET source == IF fail.at = "get_default" THEN [status |-> "500", sha |-> 0]
                  ELSE GetBranch(h, DefaultBranch)
        c2 == Append(c1, HostCall("get_branch", <<>>, DefaultBranch, source.status))
    IN
    IF source.status # "ok" THEN Step(source.status, TRUE, h, c2)
    ELSE
    LET made == IF fail.at = "create_ref" THEN [status |-> "500", host |-> h]
                ELSE CreateGitRef(h, branch, source.sha)
        c3 == Append(c2, HostCall("create_git_ref", <<>>, branch, made.status))
    IN Step(made.status, TRUE, made.host, c3)

ForceWrite(h, contents, file_path, new_content, branch, fail) ==
    LET tree == TreeAt(h, branch)
        name == IF file_path \in DOMAIN tree THEN "update_file" ELSE "create_file"
    IN Step(IF file_path \in DOMAIN tree THEN "Updated" ELSE "Created", TRUE,
            Commit(h, branch, [p \in DOMAIN tree \cup {file_path} |->
                                  IF p = file_path THEN new_content ELSE tree[p]]),
            <<HostCall("get_contents", file_path, branch, contents.status),
              HostCall(name, file_path, branch, "ok")>>)

CreateOnly(h, contents, file_path, new_content, branch, fail) ==
    LET made == HostCreateFile(h, file_path, new_content, branch) IN
    Step(IF made.status = "ok" THEN "Created" ELSE made.status, TRUE, made.host,
         <<HostCall("create_file", file_path, branch, made.status)>>)

\* line 83: contents = repo.get_contents(file_path, ref=branch)
ReadContents(h, file_path, branch, fail) ==
    IF fail.at = "get_contents"
    THEN [status |-> "500", kind |-> "none", entries |-> <<>>, file |-> NoEntry]
    ELSE GetContents(h, file_path, branch)

\* lines 82-88 from the answer of get_contents on: update_file with the sha
\* that was read, and on a GithubException from get_contents or from
\* update_file, create_file.  h is the host as it is when the write is made
WriteWith(h, contents, file_path, new_content, branch, fail) ==
    LET c1 == <<HostCall("get_contents", file_path, branch, contents.status)>>
        created(calls) ==
            LET made == IF fail.at = "create" THEN [status |-> "500", host |-> h]
                        ELSE HostCreateFile(h, file_path, new_content, branch)
            IN Step(IF made.status = "ok" THEN "Created" ELSE made.status, TRUE, made.host,
                    Append(calls, HostCall("create_file", file_path, branch, made.status)))
    IN
    IF fail.at = "get_contents" /\ ~fail.gh THEN Step("ConnectionError", FALSE, h, c1)
    ELSE IF contents.status # "ok" THEN created(c1)
    \* a list of entries has no path attribute: AttributeError
    ELSE IF contents.kind = "dir" THEN Step("AttributeError", FALSE, h, c1)
    ELSE
    LET done == IF fail.at = "update" THEN [status |-> "500", host |-> h]
                ELSE HostUpdateFile(h, contents.file.path, new_content, contents.file.sha, branch)
        c2 == Append(c1, HostCall("update_file", contents.file.path, branch, done.status))
    IN
    IF done.status = "ok" THEN Step("Updated", TRUE, done.host, c2)
    ELSE IF fail.at = "update" /\ ~fail.gh THEN Step("ConnectionError", FALSE, h, c2)
    ELSE created(c2)

\* lines 82-88 with nothing between the read and the write
WriteFile(h, file_path, new_content, branch, fail) ==
    WriteWith(h, ReadContents(h, file_path, branch, fail), file_path, new_content, branch, fail)

update_on_default(h, repo_full_name, file_path, new_content, branch, fail) ==
    LET w == WriteFile(h, file_path, new_content, DefaultBranch, fail) IN
    Outcome(FALSE, Content("Updated ", file_path, branch, "", <<>>), w.host, w.calls)

\* lines 86, 89 and 91: the string update_file returns
Report(status, file_path, branch) ==
    IF status \in {"Updated", "Created"}
    THEN Content(IF status = "Updated" THEN "Updated " ELSE "Created ",
                 file_path, branch, "", <<>>)
    ELSE Content("Error committing to file: ", <<>>, <<>>, status, <<>>)

update_file(h, repo_full_name, file_path, new_content, branch, fail) ==
    IF fail.at = "get_repo" \/ GetRepo(repo_full_name) # "ok"
    THEN Outcome(TRUE, Text("get_repo"), h, <<>>)
    ELSE
    LET b == EnsureBranch(h, branch, fail) IN
    IF b.status # "ok"
    THEN Outcome(FALSE, Report(b.status, file_path, branch), b.host, b.calls)
    ELSE
    LET w == WriteFile(b.host, file_path, new_content, branch, fail) IN
    Outcome(FALSE, Report(w.status, file_path, branch), w.host, b.calls \o w.calls)

(***************************************************************************)
(* The run: AgentState, the nodes of the graph and the loop of             *)
(* run_coding_agent.                                                       *)
(*   state        the graph's AgentState                                   *)
(*   pc           the node that runs next ("agent", "tools", "create_pr"), *)
(*                "done" once run_coding_agent has returned final_output,  *)
(*                "error" once an exception has left run_coding_agent      *)
(*   llm_input    the messages of the latest llm_with_tools.invoke         *)
(*   final_output the local variable of run_coding_agent                   *)
(*   fault        what raised out of the run: "none", "llm" or "tool"      *)
(*   turns        the model invocations made so far                        *)
(*   issued       the tool calls the model has asked for so far            *)
(*   host         the repository host                                      *)
(*   writes       the host mutations the run has made, in order            *)
(*   pulls        the create_pull calls the run has made, in order         *)
(*   op           the latest tool operation applied on its own             *)
(*   runs         the runs that share the host with this one, each with its *)
(*                issue title, its branch_name and the update_file call it  *)
(*                is in                                                     *)
(***************************************************************************)
VARIABLES state, pc, llm_input, final_output, fault, turns, issued, host, writes, pulls, op,
          runs

vars == <<state, pc, llm_input, final_output, fault, turns, issued, host, writes, pulls, op,
          runs>>

Message(role, content, tool_calls, tool_call_id) ==
    [role |-> role, content |-> content, tool_calls |-> tool_calls,
     tool_call_id |-> tool_call_id]

SystemMessage(content) == Message("system", content, <<>>, 0)
HumanMessage(content) == Message("user", content, <<>>, 0)
AIMessage(content, tool_calls) == Message("assistant", content, tool_calls, 0)
ToolMessage(content, id) == Message("tool_result", content, <<>>, id)

ToolCall(id, name, repo_full_name, path, new_content, branch) ==
    [id |-> id, name |-> name,
     args |-> [repo_full_name |-> repo_full_name, path |-> path,
               new_content |-> new_content, branch |-> branch]]

\* AgentState declares messages as a plain List[BaseMessage]: the channel has
\* no reducer, so what a node returns for the key replaces the stored value
AgentState(st, update) == [st EXCEPT !.messages = update.messages]

\* the system message agent_node builds from the state
sys_msg(st) ==
    SystemMessage(Content("system prompt", <<>>, st.branch_name, st.repo_full_name, <<>>))

Unprompted(st) == st.messages

\* lines 121-124: the messages agent_node hands to the model
ModelInput(st) ==
    IF st.messages = <<>> \/ st.messages[1].role # "system"
    THEN <<sys_msg(st)>> \o st.messages
    ELSE st.messages

\* lines 126-128: what agent_node returns for the model's response
agent_node(st, response) == [messages |-> <<response>>]

ByText(st) ==
    IF st.messages[Len(st.messages)].content.text = "READY_FOR_PR"
    THEN "create_pr" ELSE "tools"

should_continue(st) ==
    IF st.messages[Len(st.messages)].tool_calls # <<>> THEN "tools" ELSE "create_pr"

\* lines 182-192
initial_state(issue_title, issue_desc) ==
    [repo_full_name |-> RepoName,
     issue_title |-> issue_title,
     issue_desc |-> issue_desc,
     branch_name |-> BranchName(issue_title),
     messages |-> <<HumanMessage(Text("begin"))>>]

(***************************************************************************)
(* The inputs of a run: issue titles, the model's responses, host failures. *)
(***************************************************************************)
FixBug == <<"F", "i", "x", " ", "b", "u", "g">>

LongTitle == [i \in 1..(MaxSlug + 2) |-> IF i % 2 = 1 THEN "B" ELSE "/"]

Titles == {FixBug, LongTitle}

\* the tool calls the model may ask for; it is told the repository and the
\* target branch in the system prompt but chooses the arguments itself
CallShapes(st) ==
    {ToolCall(0, "list_files", RepoName, <<>>, "", <<>>),
     ToolCall(0, "read_file", RepoName, <<1>>, "", <<>>),
     ToolCall(0, "read_file", RepoName, <<9>>, "", <<>>),
     ToolCall(0, "read_file", "other/repo", <<1>>, "", <<>>),
     ToolCall(0, "update_file", RepoName, <<1>>, "new", st.branch_name),
     ToolCall(0, "update_file", RepoName, <<3>>, "new", DefaultBranch)}

\* the provider numbers the tool calls it asks for: the ids of one response
\* are distinct, and distinct from those of earlier responses
CallId(before, i) == before + i

\* the responses the model may give when it has asked for `before` calls so far
Responses(st, before) ==
    {AIMessage(Text(t), [i \in 1..Len(shapes) |-> [shapes[i] EXCEPT !.id = CallId(before, i)]]) :
        t \in {"READY_FOR_PR", "working"},
        shapes \in UNION {[1..n -> CallShapes(st)] : n \in 0..(MaxCalls - before)}}

RunFails == {NoFail, FailAt("get_repo", 1, TRUE), FailAt("get_contents", 1, TRUE),
             FailAt("update", 1, TRUE), FailAt("create_ref", 1, FALSE)}

\* the failures that can meet a call: those of the host calls its tool makes
FailsFor(call) ==
    IF call.args.repo_full_name # RepoName THEN {NoFail}
    ELSE IF call.name = "update_file" THEN RunFails
    ELSE {f \in RunFails : f.at \in {"none", "get_repo", "get_contents"}}

InitialTree == (<<1>> :> "old") @@ (<<2, 1>> :> "old")

InitialHost == [commits |-> (1 :> InitialTree), heads |-> (DefaultBranch :> 1)]

Idle == [name |-> "none", repo_full_name |-> RepoName, path |-> <<>>,
         new_content |-> "", branch |-> <<>>, fail |-> NoFail,
         result |-> Outcome(FALSE, Text(""), InitialHost, <<>>)]

(***************************************************************************)
(* ToolNode([list_files, read_file, update_file]): runs the tool calls of  *)
(* the last message, each with its own arguments, and returns one          *)
(* ToolMessage per call, in call order.  The calls run on a thread pool,   *)
(* so their host calls may take effect in any order.                       *)
(***************************************************************************)
Invoke(h, call, fail) ==
    CASE call.name = "list_files" ->
            list_files(h, call.args.repo_full_name, call.args.path, fail)
      [] call.name = "read_file" ->
            read_file(h, call.args.repo_full_name, call.args.path, fail)
      [] call.name = "update_file" ->
            update_file(h, call.args.repo_full_name, call.args.path,
                        call.args.new_content, call.args.branch, fail)

Orders(k) == {o \in [1..k -> 1..k] : \A i, j \in 1..k : o[i] = o[j] => i = j}

\* the calls executed in the given order; outs[j] is the outcome of call j
RECURSIVE Dispatch(_, _, _, _, _, _)
Dispatch(h, calls, order, fails, i, outs) ==
    IF i > Len(calls) THEN [host |-> h, outs |-> outs, ran |-> order]
    ELSE LET j == order[i]
             o == Invoke(h, calls[j], fails[j])
         IN Dispatch(o.host, calls, order, fails, i + 1, [outs EXCEPT ![j] = o])

\* the successful mutating host calls of a dispatch, in the order made
IsWrite(c) == c.name \in {"create_git_ref", "update_file", "create_file"} /\ c.status = "ok"

RECURSIVE WritesOf(_, _)
WritesOf(d, i) ==
    IF i > Len(d.ran) THEN <<>>
    ELSE SelectSeq(d.outs[d.ran[i]].calls, IsWrite) \o WritesOf(d, i + 1)

\* a tool that raised: ToolNode turns the exception into the content of the
\* ToolMessage when it handles tool errors
ToolNodeResult(call, out) ==
    ToolMessage(IF out.raised THEN Content("Error: ", <<>>, <<>>, out.content.text, <<>>)
                ELSE out.content, call.id)

ToolNode(calls, d) ==
    [j \in 1..Len(calls) |-> ToolNodeResult(calls[j], d.outs[j])]

(***************************************************************************)
(* create_pr_node                                                          *)
(***************************************************************************)
PrUrl == "https://host/pull/1"

\* repo.create_pull(title, body, head, base): the host refuses a head branch
\* that does not exist or has nothing to merge
CreatePull(h, head, base, fail) ==
    IF fail THEN "500"
    ELSE IF head \notin DOMAIN h.heads \/ base \notin DOMAIN h.heads THEN "422"
    ELSE IF h.heads[head] = h.heads[base] THEN "422"
    ELSE "ok"

PullFromDefault(st) ==
    [title |-> <<"Fix: ">> \o st.issue_title,
     body |-> Content("Automated PR for: ", <<>>, <<>>, st.issue_desc, <<>>),
     head |-> DefaultBranch,
     base |-> DefaultBranch]

PullRequest(st) ==
    [title |-> <<"Fix: ">> \o st.issue_title,
     body |-> Content("Automated PR for: ", <<>>, <<>>, st.issue_desc, <<>>),
     head |-> st.branch_name,
     base |-> DefaultBranch]

Raising(st, status) ==
    [raised |-> status # "ok", messages |-> <<AIMessage(Text(PrUrl), <<>>)>>]

create_pr_node(st, status) ==
    [raised |-> FALSE,
     messages |->
        <<AIMessage(IF status = "ok"
                    THEN Content("PR Created: ", <<>>, <<>>, PrUrl, <<>>)
                    ELSE Content("PR Failed: ", <<>>, <<>>, status, <<>>), <<>>)>>]

(***************************************************************************)
(* The run as a state machine.                                             *)
(***************************************************************************)
NoOutput == Text("")

Init ==
    /\ \E t \in Titles : state = initial_state(t, "desc")
    /\ pc = "agent"
    /\ llm_input = <<>>
    /\ final_output = NoOutput
    /\ fault = "none"
    /\ turns = 0
    /\ issued = 0
    /\ host = InitialHost
    /\ writes = <<>>
    /\ pulls = <<>>
    /\ op = Idle
    /\ runs = <<>>

\* the agent node: the model answers
AgentTurn ==
    /\ pc = "agent"
    /\ turns < MaxTurns
    /\ \E response \in Responses(state, issued) :
          /\ llm_input' = ModelInput(state)
          /\ state' = AgentState(state, agent_node(state, response))
          /\ issued' = issued + Len(response.tool_calls)
    /\ pc' = should_continue(state')
    /\ turns' = turns + 1
    /\ UNCHANGED <<final_output, fault, host, writes, pulls, op, runs>>

AgentRecovers ==
    /\ pc = "agent"
    /\ turns < MaxTurns
    /\ llm_input' = ModelInput(state)
    /\ pc' = "create_pr"
    /\ fault' = "llm"
    /\ turns' = turns + 1
    /\ UNCHANGED <<state, final_output, issued, host, writes, pulls, op, runs>>

\* the agent node: llm_with_tools.invoke raises; nothing catches it
AgentRaises ==
    /\ pc = "agent"
    /\ turns < MaxTurns
    /\ llm_input' = ModelInput(state)
    /\ pc' = "error"
    /\ fault' = "llm"
    /\ turns' = turns + 1
    /\ UNCHANGED <<state, final_output, issued, host, writes, pulls, op, runs>>

\* the tools node.  A tool that raises (the repository could not be
\* resolved) either gets its exception turned into the ToolMessage or, with a
\* ToolNode that re-raises what is not an argument error, ends the run: the
\* code pins no version, so both happen
Tools ==
    /\ pc = "tools"
    /\ LET calls == state.messages[Len(state.messages)].tool_calls
           k == Len(calls)
       IN \E order \in Orders(k),
             fails \in {f \in [1..k -> RunFails] : \A j \in 1..k : f[j] \in FailsFor(calls[j])} :
            LET d == Dispatch(host, calls, order, fails, 1,
                              [j \in 1..k |-> Outcome(FALSE, Text(""), host, <<>>)])
                raised == \E j \in 1..k : d.outs[j].raised
            IN /\ host' = d.host
               /\ writes' = writes \o WritesOf(d, 1)
               /\ \E handles \in (IF raised THEN BOOLEAN ELSE {TRUE}) :
                     IF raised /\ ~handles
                     THEN /\ pc' = "error"
                          /\ fault' = "tool"
                          /\ UNCHANGED state
                     ELSE /\ pc' = "agent"
                          /\ state' = AgentState(state, [messages |-> ToolNode(calls, d)])
                          /\ UNCHANGED fault
    /\ UNCHANGED <<llm_input, final_output, turns, issued, pulls, op, runs>>

CreatePrRetries ==
    /\ pc = "create_pr"
    /\ \E fail \in BOOLEAN :
         LET pr == PullRequest(state)
             status == CreatePull(host, pr.head, pr.base, fail)
             update == create_pr_node(state, status)
         IN /\ pulls' = Append(pulls, pr @@ [status |-> status])
            /\ state' = AgentState(state, update)
            /\ IF status = "ok"
               THEN /\ pc' = "done"
                    /\ final_output' = update.messages[Len(update.messages)].content
               ELSE /\ pc' = "agent"
                    /\ UNCHANGED final_output
    /\ UNCHANGED <<llm_input, fault, turns, issued, host, writes, op, runs>>

\* the create_pr node, and the loop of run_coding_agent taking its message
\* as final_output and returning it
CreatePr ==
    /\ pc = "create_pr"
    /\ \E fail \in BOOLEAN :
         LET pr == PullRequest(state)
             status == CreatePull(host, pr.head, pr.base, fail)
             update == create_pr_node(state, status)
         IN /\ pulls' = Append(pulls, pr @@ [status |-> status])
            /\ IF update.raised
               THEN /\ pc' = "error"
                    /\ fault' = "create_pr"
                    /\ UNCHANGED <<state, final_output>>
               ELSE /\ pc' = "done"
                    /\ state' = AgentState(state, update)
                    /\ final_output' = update.messages[Len(update.messages)].content
                    /\ UNCHANGED fault
    /\ UNCHANGED <<llm_input, turns, issued, host, writes, op, runs>>

Next == AgentTurn \/ AgentRaises \/ Tools \/ CreatePr

Spec == Init /\ [][Next]_vars

\* the create_pr node, once the graph has routed to it, runs: app.stream
\* runs the next node of the graph as long as there is one (lines 197-206)
SpecLive == Spec /\ WF_vars(CreatePr)

(***************************************************************************)
(* list_files on its own, over directory trees of many sizes and shapes.   *)
(* A tree has rootFiles files at the root, subdirs directories there, each *)
(* with subFiles files and a nested directory of nestedFiles files; names  *)
(* are numbered so that files and directories alternate in a listing.      *)
(***************************************************************************)
RootFile(i) == IF i = 1 THEN 1 ELSE IF i = 2 THEN 3 ELSE i + 2

ListTree(rootFiles, subdirs, subFiles, nestedFiles) ==
    LET paths == {<<RootFile(i)>> : i \in 1..rootFiles}
                 \cup {<<2 * j, k + 1>> : j \in 1..subdirs, k \in 1..subFiles}
                 \cup {<<2 * j, 1, k>> : j \in 1..subdirs, k \in 1..nestedFiles}
    IN [p \in paths |-> "c"]

Sizes == {0, 1, MaxWide}

ListHosts ==
    {[commits |-> (1 :> ListTree(r, d, f, n)), heads |-> (DefaultBranch :> 1)] :
        r \in Sizes, d \in 0..2, f \in Sizes, n \in Sizes}

StartPaths == {<<>>, <<1>>, <<2>>, <<2, 1>>, <<4>>, <<9, 9>>}

ListFails == {NoFail, FailAt("get_repo", 1, TRUE),
              FailAt("get_contents", 1, TRUE), FailAt("get_contents", 2, TRUE)}

InitList ==
    /\ state = initial_state(FixBug, "desc")
    /\ pc = "call"
    /\ llm_input = <<>>
    /\ final_output = NoOutput
    /\ fault = "none"
    /\ turns = 0
    /\ issued = 0
    /\ host \in ListHosts
    /\ writes = <<>>
    /\ pulls = <<>>
    /\ op = Idle
    /\ runs = <<>>

ListFiles ==
    /\ pc = "call"
    /\ \E repo \in {RepoName, "other/repo"}, path \in StartPaths, fail \in ListFails :
          op' = [name |-> "list_files", repo_full_name |-> repo, path |-> path,
                 new_content |-> "", branch |-> <<>>,
                 fail |-> fail, result |-> list_files(host, repo, path, fail)]
    /\ pc' = "returned"
    /\ UNCHANGED <<state, llm_input, final_output, fault, turns, issued, host, writes, pulls,
                   runs>>

NextList == ListFiles

SpecList == InitList /\ [][NextList]_vars

Listed == op.name = "list_files" /\ ~op.result.raised /\ op.result.content.tag = ""

\* C10: a successful list_files call returns at most 50 paths, each the path
\* of a file (not a directory) of the tree located under the start path
C10_ListAtMost50Files ==
    Listed =>
        LET files == op.result.content.files
            tree == TreeAt(host, DefaultBranch)
        IN /\ Len(files) <= MaxListed
           /\ \A i \in 1..Len(files) :
                 /\ files[i] \in DOMAIN tree
                 /\ ~IsDir(tree, files[i])
                 /\ IsPrefix(op.path, files[i])

\* a tree with more than 50 files under a start directory below the root,
\* listed down to 50
C10_Witness ==
    /\ Listed
    /\ op.path # <<>>
    /\ Len(op.result.content.files) = MaxListed
    /\ Cardinality({p \in DOMAIN TreeAt(host, DefaultBranch) : IsPrefix(op.path, p)}) > MaxListed

(***************************************************************************)
(* The three tools called on their own, with every host failure injected.  *)
(***************************************************************************)
WorkingBranch == BranchName(FixBug)

\* the repository as a run may find it: the working branch absent, present
\* at the default branch's head, or ahead of it
ToolHosts ==
    {InitialHost,
     [InitialHost EXCEPT !.heads = @ @@ (WorkingBranch :> 1)],
     [commits |-> InitialHost.commits @@ (2 :> (InitialTree @@ (<<3>> :> "new"))),
      heads |-> InitialHost.heads @@ (WorkingBranch :> 2)]}

ToolPaths == {<<1>>, <<2>>, <<3>>, <<1, 1>>}

ReadFails == {NoFail, FailAt("get_repo", 1, TRUE), FailAt("get_contents", 1, TRUE)}

UpdateFails ==
    {NoFail} \cup
    {FailAt(at, 1, gh) :
        at \in {"get_repo", "get_branch", "get_default", "create_ref",
                "get_contents", "update", "create"},
        gh \in BOOLEAN}

InitTools ==
    /\ state = initial_state(FixBug, "desc")
    /\ pc = "call"
    /\ llm_input = <<>>
    /\ final_output = NoOutput
    /\ fault = "none"
    /\ turns = 0
    /\ issued = 0
    /\ host \in ToolHosts
    /\ writes = <<>>
    /\ pulls = <<>>
    /\ op = Idle
    /\ runs = <<>>

Returned(result) ==
    /\ pc' = "returned"
    /\ host' = result.host
    /\ writes' = SelectSeq(result.calls, IsWrite)
    /\ issued' = 1
    /\ UNCHANGED <<state, llm_input, final_output, fault, turns, pulls, runs>>

ToolList ==
    /\ pc = "call"
    /\ \E repo \in {RepoName, "other/repo"}, path \in ToolPaths \cup {<<>>}, fail \in ReadFails :
         LET result == list_files(host, repo, path, fail) IN
         /\ op' = [name |-> "list_files", repo_full_name |-> repo, path |-> path,
                   new_content |-> "", branch |-> <<>>, fail |-> fail, result |-> result]
         /\ Returned(result)

ToolRead ==
    /\ pc = "call"
    /\ \E repo \in {RepoName, "other/repo"}, path \in ToolPaths, fail \in ReadFails :
         LET result == read_file(host, repo, path, fail) IN
         /\ op' = [name |-> "read_file", repo_full_name |-> repo, path |-> path,
                   new_content |-> "", branch |-> <<>>, fail |-> fail, result |-> result]
         /\ Returned(result)

ToolUpdate ==
    /\ pc = "call"
    /\ \E repo \in {RepoName, "other/repo"}, path \in ToolPaths,
          content \in {"old", "new"}, branch \in {DefaultBranch, WorkingBranch},
          fail \in UpdateFails :
         LET result == update_file(host, repo, path, content, branch, fail) IN
         /\ op' = [name |-> "update_file", repo_full_name |-> repo, path |-> path,
                   new_content |-> content, branch |-> branch, fail |-> fail,
                   result |-> result]
         /\ Returned(result)

NextTools == ToolList \/ ToolRead \/ ToolUpdate

SpecTools == InitTools /\ [][NextTools]_vars

ErrorPrefix(name) ==
    CASE name = "list_files" -> "Error listing files: "
      [] name = "read_file" -> "Error reading file: "
      [] name = "update_file" -> "Error committing to file: "

\* the step resolving the repository from its identifier failed
RepoUnresolved == op.fail.at = "get_repo" \/ GetRepo(op.repo_full_name) # "ok"

\* C5: none of the three tools raises to its caller, whatever host call
\* fails, the one resolving the repository included: the operation then
\* returns a string beginning with the tool's error prefix
C5_ToolsNeverRaise ==
    op.name # "none" =>
        /\ ~op.result.raised
        /\ RepoUnresolved => op.result.content.tag = ErrorPrefix(op.name)

(***************************************************************************)
(* Properties of the run (specification Spec).                             *)
(***************************************************************************)
LastMessage == state.messages[Len(state.messages)]

SystemFirst(msgs) ==
    /\ msgs # <<>>
    /\ msgs[1].role = "system"
    /\ \A i \in 2..Len(msgs) : msgs[i].role # "system"

\* C1 as stated: the run state's message sequence is never empty, starts
\* with the system message and holds no other system message
C1_StateStartsWithSystem == SystemFirst(state.messages)

\* C1 amended: the run state's message sequence is never empty and never
\* holds a system message; the sequence handed to the model at each model
\* turn starts with the system message and holds no other system message
C1_ModelInputStartsWithSystem ==
    /\ state.messages # <<>>
    /\ \A i \in 1..Len(state.messages) : state.messages[i].role # "system"
    /\ turns > 0 => SystemFirst(llm_input)

\* a second model turn, fed with the results of a tool dispatch
C1_Witness ==
    /\ turns = 2
    /\ Len(llm_input) >= 2
    /\ llm_input[2].role = "tool_result"

\* C2: the message sequence is append-only: every step keeps the stored
\* messages in place and only adds at the end, so the history handed to the
\* model holds the initial user message and every earlier message
C2_AppendOnly ==
    [][/\ IsPrefix(state.messages, state'.messages)
       /\ turns' > turns => IsPrefix(state.messages, llm_input')
                            \/ IsPrefix(state.messages, Tail(llm_input'))]_vars

\* C3: after a model turn the run dispatches tools iff the assistant message
\* just produced carries a tool call, and finalizes otherwise, whatever the
\* message's text; it is back at the model only after a dispatch
C3_DecideByToolCalls ==
    /\ pc = "tools" => LastMessage.role = "assistant" /\ LastMessage.tool_calls # <<>>
    /\ pc = "create_pr" => LastMessage.role = "assistant" /\ LastMessage.tool_calls = <<>>
    /\ pc = "agent" /\ turns > 0 => LastMessage.role = "tool_result"

\* the model answers with the completion token and a tool call: tools run
C3_Witness ==
    /\ pc = "tools"
    /\ LastMessage.content.text = "READY_FOR_PR"

\* message i of msgs answers the call of the assistant message right before
\* the run of tool results it stands in, at the same position
AnswersCall(msgs, i) ==
    \E j \in 1..(i - 1) :
        /\ msgs[j].role = "assistant"
        /\ \A m \in (j + 1)..i : msgs[m].role = "tool_result"
        /\ i - j <= Len(msgs[j].tool_calls)
        /\ msgs[j].tool_calls[i - j].id = msgs[i].tool_call_id

\* C4: every tool_result of the message sequence answers one tool call of
\* the assistant message immediately before it, results stand in call
\* order, and at the next model turn no call is unanswered
C4_ResultsAnswerCalls ==
    /\ \A i \in 1..Len(state.messages) :
          state.messages[i].role = "tool_result" => AnswersCall(state.messages, i)
    /\ \A i \in 1..Len(llm_input) :
          llm_input[i].role = "tool_result" => AnswersCall(llm_input, i)

\* C6: a tool call that fails at the host does not abort the run: the
\* dispatch ends with one tool_result per call of the assistant message,
\* the other fields of the run state are unchanged, and the next step is a
\* model turn, never an error state
C6_FailedToolContinues ==
    [][pc = "tools" =>
         LET calls == LastMessage.tool_calls
             n == Len(state'.messages)
             k == Len(calls)
         IN /\ pc' = "agent"
            /\ fault' = "none"
            /\ [state' EXCEPT !.messages = <<>>] = [state EXCEPT !.messages = <<>>]
            /\ n >= k
            /\ \A j \in 1..k :
                  /\ state'.messages[n - k + j].role = "tool_result"
                  /\ state'.messages[n - k + j].tool_call_id = calls[j].id]_vars

\* C7: create_pr never raises: the single create_pull attempt, failed or
\* not, ends the run normally; the returned string is the content made by
\* create_pr_node, never empty, holding the pull request's URL on success
\* and the failure detail on failure
C7_FinalizeFailureIsData ==
    /\ fault # "create_pr"
    /\ pulls # <<>> => pc = "done"
    /\ pc = "done" =>
          /\ Len(pulls) = 1
          /\ final_output # NoOutput
          /\ LastMessage.role = "assistant"
          /\ final_output = LastMessage.content
          /\ IF pulls[1].status = "ok"
             THEN final_output.tag = "PR Created: " /\ final_output.text = PrUrl
             ELSE final_output.tag = "PR Failed: " /\ final_output.text = pulls[1].status

\* the pull request could not be created, and the run returned
C7_Witness ==
    /\ pc = "done"
    /\ pulls[1].status # "ok"
    /\ final_output.tag = "PR Failed: "

\* C8: a failed model invocation is fatal: the run is in the error state
\* with no result and no pull request attempted, and takes no further step
C8_ModelFailureIsFatal ==
    /\ [](fault = "llm" => pc = "error" /\ final_output = NoOutput /\ pulls = <<>>)
    /\ [][fault # "llm"]_vars

\* the second model invocation fails, after the first turn's writes
C8_Witness ==
    /\ fault = "llm"
    /\ turns = 2
    /\ writes # <<>>

\* C9 as stated: every mutation of the run is made on the run's working
\* branch, whatever arguments the model supplies
C9_WritesOnWorkingBranch ==
    \A i \in 1..Len(writes) : writes[i].branch = state.branch_name

UpdateCallOn(branch) ==
    /\ pc = "tools"
    /\ \E j \in 1..Len(LastMessage.tool_calls) :
          /\ LastMessage.tool_calls[j].name = "update_file"
          /\ LastMessage.tool_calls[j].args.branch = branch

\* C9 amended: every mutation of the run is made on the branch named by the
\* branch argument of an update_file call of the dispatch that makes it, a
\* file write at that call's path, and no other branch of the host changes
C9_WritesOnRequestedBranch ==
    [][/\ \A i \in (Len(writes) + 1)..Len(writes') :
             /\ pc = "tools"
             /\ \E j \in 1..Len(LastMessage.tool_calls) :
                   LET call == LastMessage.tool_calls[j] IN
                   /\ call.name = "update_file"
                   /\ call.args.branch = writes'[i].branch
                   /\ writes'[i].name # "create_git_ref" => call.args.path = writes'[i].path
       /\ \A b \in DOMAIN host'.heads :
             (b \notin DOMAIN host.heads \/ host'.heads[b] # host.heads[b])
                => UpdateCallOn(b)]_vars

\* a run that has written on its working branch and on the default branch
C9_Witness ==
    /\ \E i \in 1..Len(writes) :
          writes[i].name = "update_file" /\ writes[i].branch = state.branch_name
    /\ \E i \in 1..Len(writes) :
          writes[i].name = "create_file" /\ writes[i].branch = DefaultBranch

(***************************************************************************)
(* Two runs on one repository.  Each computes its branch_name from its     *)
(* issue title and makes one update_file call on that branch, for the same *)
(* file path; the host serves one call at a time, so the calls of the two  *)
(* runs interleave: ensuring the branch (lines 76-80), reading the file    *)
(* (line 83), writing it (lines 84-88).  The host answers every call; it   *)
(* refuses what a repository host refuses (404, 409, 422).                 *)
(*   runs[r].began   where the other run's call was when this one began:   *)
(*                   not begun ("first"), returned ("after"), or "during"  *)
(***************************************************************************)
FixBugDashed == <<"f", "i", "x", "-", "b", "u", "g">>

LongTitleToo == [LongTitle EXCEPT ![MaxSlug + 2] = "1"]

RunTitles == {FixBug, FixBugDashed, LongTitle, LongTitleToo}

RunPaths == {<<1>>, <<2>>, <<3>>, <<1, 1>>}

NoContents == [status |-> "none", kind |-> "none", entries |-> <<>>, file |-> NoEntry]

NewRun(issue_title, file_path, new_content) ==
    [issue_title |-> issue_title, branch_name |-> <<>>, pc |-> "new",
     path |-> file_path, new_content |-> new_content, began |-> "no",
     contents |-> NoContents, calls |-> <<>>, result |-> NoOutput]

OtherRun(r) == 3 - r

InitRuns ==
    /\ state = initial_state(FixBug, "desc")
    /\ pc = "runs"
    /\ llm_input = <<>>
    /\ final_output = NoOutput
    /\ fault = "none"
    /\ turns = 0
    /\ issued = 0
    /\ host \in ToolHosts
    /\ writes = <<>>
    /\ pulls = <<>>
    /\ op = Idle
    /\ \E t1 \in RunTitles, t2 \in RunTitles, path \in RunPaths, content \in {"new", "newer"} :
          runs = <<NewRun(t1, path, "new"), NewRun(t2, path, content)>>

RunStep(r, run, h, calls) ==
    /\ runs' = [runs EXCEPT ![r] = [run EXCEPT !.calls = @ \o calls]]
    /\ host' = h
    /\ writes' = writes \o SelectSeq(calls, IsWrite)
    /\ issued' = issued + Len(calls)
    /\ UNCHANGED <<state, pc, llm_input, final_output, fault, turns, pulls, op>>

\* lines 182-183 of run_coding_agent
StartRun(r) ==
    /\ runs[r].pc = "new"
    /\ RunStep(r, [runs[r] EXCEPT !.pc = "ensure",
                                  !.branch_name = BranchName(runs[r].issue_title)], host, <<>>)

EnsureStep(r) ==
    /\ runs[r].pc = "ensure"
    /\ LET run == runs[r]
           b == EnsureBranch(host, run.branch_name, NoFail)
           other == runs[OtherRun(r)].pc
       IN RunStep(r, [run EXCEPT !.began = IF other \in {"new", "ensure"} THEN "first"
                                           ELSE IF other = "done" THEN "after"
                                           ELSE "during",
                                 !.pc = IF b.status = "ok" THEN "read" ELSE "done",
                                 !.result = IF b.status = "ok" THEN NoOutput
                                            ELSE Report(b.status, run.path, run.branch_name)],
                  b.host, b.calls)

ReadStep(r) ==
    /\ runs[r].pc = "read"
    /\ LET run == runs[r] IN
       RunStep(r, [run EXCEPT !.pc = "write",
                              !.contents = ReadContents(host, run.path, run.branch_name, NoFail)],
               host, <<>>)

WriteStep(r) ==
    /\ runs[r].pc = "write"
    /\ LET run == runs[r]
           w == WriteWith(host, run.contents, run.path, run.new_content, run.branch_name, NoFail)
       IN RunStep(r, [run EXCEPT !.pc = "done",
                                 !.result = Report(w.status, run.path, run.branch_name)],
                  w.host, w.calls)

NextRuns == \E r \in {1, 2} : StartRun(r) \/ EnsureStep(r) \/ ReadStep(r) \/ WriteStep(r)

SpecRuns == InitRuns /\ [][NextRuns]_vars

(***************************************************************************)
(* Properties of update_file called twice (specification SpecRuns).        *)
(***************************************************************************)
\* run r made its call after the other run's call had returned, with the
\* same path, content and branch
CalledAgain(r) ==
    /\ runs[r].pc = "done"
    /\ runs[r].began = "after"
    /\ runs[r].branch_name = runs[OtherRun(r)].branch_name
    /\ runs[r].new_content = runs[OtherRun(r)].new_content

\* the first call returned "Created"/"Updated <path> on <branch>", the second
\* "Updated <path> on <branch>", and the file holds the content
UpsertedTwice(r) ==
    LET run == runs[r]
        first == runs[OtherRun(r)].result
        tree == TreeAt(host, run.branch_name)
    IN /\ first \in {Report("Created", run.path, run.branch_name),
                      Report("Updated", run.path, run.branch_name)}
       /\ run.result = Report("Updated", run.path, run.branch_name)
       /\ run.path \in DOMAIN tree
       /\ tree[run.path] = run.new_content

\* a file can be at the path: the path is no directory and lies below no file
CanHoldFile(tree, path) ==
    /\ ~IsDir(tree, path)
    /\ ~\E q \in DOMAIN tree : Len(q) < Len(path) /\ IsPrefix(q, path)

\* C11 as stated: update_file called twice in sequence with the same path,
\* content and branch, and no other writer in between, returns "Created" or
\* "Updated" the first time and "Updated" the second time, and the file
\* then holds the content, whatever the path
C11_TwiceCreatedThenUpdated ==
    \A r \in {1, 2} : CalledAgain(r) => UpsertedTwice(r)

\* C11 amended: the same, for a path that can hold a file on the branch; for
\* a path that is a directory or lies below a file both calls return
\* "Error committing to file: ..." and the tree of the branch is unchanged
C11_TwiceOnFilePath ==
    \A r \in {1, 2} :
        CalledAgain(r) =>
            IF CanHoldFile(TreeAt(host, runs[r].branch_name), runs[r].path)
            THEN UpsertedTwice(r)
            ELSE /\ runs[r].result.tag = "Error committing to file: "
                 /\ runs[OtherRun(r)].result.tag = "Error committing to file: "
                 /\ TreeAt(host, runs[r].branch_name) \in {InitialTree, InitialTree @@ (<<3>> :> "new")}

\* the first call created the branch and the file, the second updated the file
C11_Witness ==
    \E r \in {1, 2} :
        /\ CalledAgain(r)
        /\ runs[OtherRun(r)].result.tag = "Created "
        /\ runs[r].result.tag = "Updated "
        /\ Len(runs[OtherRun(r)].calls) = 5

\* the branch-creation calls a run has issued, refused ones included
RefCalls(r) == SelectSeq(runs[r].calls, LAMBDA c : c.name = "create_git_ref")

Ensured(r) == runs[r].pc \in {"read", "write", "done"}

FileWrite(c) == c.name \in {"update_file", "create_file"}

\* the update_file call made by this step, on a repository that resolves
Upserts == op'.name = "update_file" /\ pc = "call" /\ ~RepoUnresolved'

\* the call found no branch of the given name, and the host answered every
\* call
OnNewBranch == Upserts /\ op'.fail = NoFail /\ op'.branch \notin DOMAIN host.heads

\* the branch is created, by the third host call, at the head of the default
\* branch, before any file write
BranchMadeFirst ==
    LET calls == op'.result.calls IN
    /\ Len(calls) >= 3
    /\ SubSeq(calls, 1, 3) = <<HostCall("get_branch", <<>>, op'.branch, "404"),
                               HostCall("get_branch", <<>>, DefaultBranch, "ok"),
                               HostCall("create_git_ref", <<>>, op'.branch, "ok")>>
    /\ op'.branch \in DOMAIN host'.heads
    /\ TreeAt(host', op'.branch) \in
          {TreeAt(host, DefaultBranch),
           [p \in DOMAIN TreeAt(host, DefaultBranch) \cup {op'.path} |->
               IF p = op'.path THEN op'.new_content ELSE TreeAt(host, DefaultBranch)[p]]}

CreatedOnNewBranch ==
    /\ op'.result.content = Report("Created", op'.path, op'.branch)
    /\ TreeAt(host', op'.branch) = TreeAt(host, DefaultBranch) @@ (op'.path :> op'.new_content)

\* whatever host call fails: a file write is issued only to a branch that
\* exists when it is issued
WritesToExistingBranch ==
    Upserts =>
        LET calls == op'.result.calls IN
        \A j \in 1..Len(calls) :
            FileWrite(calls[j]) =>
                /\ calls[j].branch = op'.branch
                /\ calls[j].status # "404"
                /\ \/ op'.branch \in DOMAIN host.heads
                   \/ \E i \in 1..(j - 1) : calls[i] = HostCall("create_git_ref", <<>>, op'.branch, "ok")

\* C13 as stated: update_file called for a branch that does not exist
\* creates the branch at the default branch's head first and writes the file
\* afterwards; with no file at the path the result is "Created <path> on
\* <branch>"; no file write is issued to a branch that does not exist
C13_NewBranchThenCreated ==
    [][/\ OnNewBranch =>
             /\ BranchMadeFirst
             /\ op'.path \notin DOMAIN TreeAt(host, DefaultBranch) => CreatedOnNewBranch
       /\ WritesToExistingBranch]_vars

\* C13 amended: the same, with the file created and "Created <path> on
\* <branch>" returned when the path is free (no file and no directory at it,
\* and no file above it); at a path that is a directory or lies below a file
\* the call returns "Error committing to file: ..." and the new branch keeps
\* the default branch's tree
C13_NewBranchThenCreatedIfFree ==
    [][/\ OnNewBranch =>
             /\ BranchMadeFirst
             /\ op'.path \notin DOMAIN TreeAt(host, DefaultBranch) =>
                   IF CanHoldFile(TreeAt(host, DefaultBranch), op'.path)
                   THEN CreatedOnNewBranch
                   ELSE /\ op'.result.content.tag = "Error committing to file: "
                        /\ TreeAt(host', op'.branch) = TreeAt(host, DefaultBranch)
       /\ WritesToExistingBranch]_vars

\* a call that created the branch and then the file
C13_Witness ==
    /\ op.name = "update_file"
    /\ op.result.content.tag = "Created "
    /\ Len(op.result.calls) = 5
    /\ op.result.calls[3] = HostCall("create_git_ref", <<>>, op.branch, "ok")
    /\ op.result.calls[5] = HostCall("create_file", op.path, op.branch, "ok")

(***************************************************************************)
(* Properties of the write of update_file (specification SpecRuns).        *)
(***************************************************************************)
\* the update and create calls a run has issued, refused ones included
FileWrites(r) == SelectSeq(runs[r].calls, FileWrite)

\* C17: one update_file invocation issues at most one file-mutating host call
\* (one update or one create), issues create_file only after get_contents
\* found no file at the path, and issues no write call after an update that
\* the host refused
C17_SingleWriteAttempt ==
    \A r \in {1, 2} :
        LET calls == runs[r].calls IN
        /\ Len(FileWrites(r)) <= 1
        /\ \A j \in 1..Len(calls) :
              /\ calls[j].name = "create_file" =>
                    j > 1 /\ calls[j - 1] = HostCall("get_contents", runs[r].path,
                                                      runs[r].branch_name, "404")
              /\ calls[j].name = "update_file" /\ calls[j].status # "ok" => j = Len(calls)

\* run r has read the file and another writer has committed the path since:
\* the sha it holds is no longer the file's
Stale(r) ==
    LET run == runs[r]
        tree == TreeAt(host, run.branch_name)
    IN /\ run.pc = "write"
       /\ run.contents.status = "ok"
       /\ run.contents.kind = "file"
       /\ run.path \in DOMAIN tree
       /\ run.contents.file.sha # BlobSha(tree[run.path])

\* C18: when another update_file call has committed the path between a
\* call's read of the file's sha and its update, the host rejects the update
\* that carries the stale sha, the call returns "Error committing to file:
\* ...", and the host, with the content the other writer committed, is left
\* as it was
C18_StaleUpdateRejected ==
    [][\A r \in {1, 2} :
          Stale(r) /\ runs'[r].pc = "done" =>
              /\ \E j \in 1..Len(runs'[r].calls) :
                    runs'[r].calls[j] = HostCall("update_file", runs[r].path,
                                                 runs[r].branch_name, "409")
              /\ runs'[r].result.tag = "Error committing to file: "
              /\ host' = host
              /\ TreeAt(host', runs[r].branch_name)[runs[r].path]
                    = runs[OtherRun(r)].new_content]_vars

\* two calls read the same file, one committed, the other's update was
\* rejected, and the file holds the first writer's content, not the other's
C18_Witness ==
    \E r \in {1, 2} :
        /\ runs[r].pc = "done" /\ runs[OtherRun(r)].pc = "done"
        /\ runs[r].began = "during"
        /\ runs[OtherRun(r)].result.tag = "Updated "
        /\ runs[r].result.tag = "Error committing to file: "
        /\ \E j \in 1..Len(runs[r].calls) : runs[r].calls[j].status = "409"
        /\ runs[r].new_content # runs[OtherRun(r)].new_content
        /\ TreeAt(host, runs[r].branch_name)[runs[r].path] = runs[OtherRun(r)].new_content

(***************************************************************************)
(* Properties of the working branches of two runs (specification SpecRuns).*)
(***************************************************************************)
Started(r) == runs[r].pc # "new"

\* once computed, a run's branch_name is the one computed from its issue
\* title, and no step changes it
BranchKept ==
    /\ [](\A r \in {1, 2} : Started(r) => runs[r].branch_name = BranchName(runs[r].issue_title))
    /\ [][\A r \in {1, 2} : Started(r) => runs'[r].branch_name = runs[r].branch_name]_vars

\* C19 as stated: two runs on one repository started for different issue
\* titles compute different branch names, and each run's branch name stays
\* the same for the whole run
C19_TitlesGetOwnBranches ==
    /\ [](Started(1) /\ Started(2) /\ runs[1].issue_title # runs[2].issue_title
            => runs[1].branch_name # runs[2].branch_name)
    /\ BranchKept

(***************************************************************************)
(* Properties of the run's way to its end (specification Spec).            *)
(***************************************************************************)
\* the first model response carried no tool calls
FirstResponseBare == turns = 1 /\ issued = 0 /\ fault = "none"

\* C14: when the first model response carries no tool calls, the run goes
\* from the agent node to create_pr with no tool dispatch and no host
\* mutation, and create_pull is called with title "Fix: " + issue title, a
\* body containing the issue description, head the run's branch_name and
\* base the default branch
C14_BareResponseFinalizes ==
    FirstResponseBare =>
        /\ pc \in {"create_pr", "done"}
        /\ writes = <<>>
        /\ host = InitialHost
        /\ \A i \in 1..Len(state.messages) : state.messages[i].role # "tool"
        /\ pc = "create_pr" => pulls = <<>>
        /\ pc = "done" =>
              /\ Len(pulls) = 1
              /\ pulls[1].title = <<"Fix: ">> \o state.issue_title
              /\ pulls[1].body.text = state.issue_desc
              /\ pulls[1].head = state.branch_name
              /\ pulls[1].head = BranchName(state.issue_title)
              /\ pulls[1].base = DefaultBranch

\* a run that ended after one model turn without tool calls
C14_Witness ==
    /\ FirstResponseBare
    /\ pc = "done"
    /\ Len(pulls) = 1
    /\ state.issue_title = FixBug
    /\ pulls[1].title = <<"Fix: ">> \o FixBug

\* C15: once the model has returned an assistant message without tool calls
\* (the run is at create_pr), the run reaches its end ("done"); create_pull
\* has then been called exactly once, whatever it answered, and after that
\* call the run makes no model turn and no tool dispatch
C15_FinalizeOnceThenEnd ==
    /\ (pc = "create_pr") ~> (pc = "done")
    /\ [](/\ Len(pulls) <= 1
          /\ pc = "done" => Len(pulls) = 1
          /\ pc \in {"agent", "tools", "create_pr"} => pulls = <<>>)
    /\ [][/\ pc = "create_pr" => pc' = "done" /\ Len(pulls') = 1
          /\ pulls # <<>> => turns' = turns /\ issued' = issued /\ host' = host]_vars

\* a run that made tool calls, then got a response without any, and ended
\* after a refused pull request
C15_Witness ==
    /\ pc = "done"
    /\ turns = 2
    /\ issued > 0
    /\ Len(pulls) = 1
    /\ pulls[1].status # "ok"

\* C16: whatever the number of turns so far, a model turn whose assistant
\* message carries a tool call is followed by the tool dispatch, and the tool
\* dispatch by the next model turn: the run reaches neither create_pr, nor
\* its end, nor an error state
C16_TurnsAlternate ==
    [][/\ pc = "agent" /\ fault' = "none" /\ LastMessage'.tool_calls # <<>> => pc' = "tools"
       /\ pc = "tools" => pc' = "agent" /\ fault' = "none"]_vars

(***************************************************************************)
(* Properties of the order of list_files (specification SpecList).         *)
(***************************************************************************)
\* p comes before q in a breadth-first walk that takes every directory's
\* entries in listing order: the shallower path first, and of two paths of
\* one depth the one that is smaller at the first component they differ in
Before(p, q) ==
    \/ Len(p) < Len(q)
    \/ /\ Len(p) = Len(q)
       /\ \E k \in 1..Len(p) : SubSeq(p, 1, k - 1) = SubSeq(q, 1, k - 1) /\ p[k] < q[k]

\* C20: a successful list_files call returns the files under the start path
\* in breadth-first order (every file at depth d before any at depth d+1,
\* entries of one directory in listing order), cut to the first 50 of that
\* order, after get_contents has been called for the start path and for
\* every directory under it
C20_BreadthFirstThenCut ==
    Listed =>
        LET files == op.result.content.files
            tree == TreeAt(host, DefaultBranch)
            under == {p \in DOMAIN tree : IsPrefix(op.path, p)}
            dirs == UNION {{SubSeq(p, 1, n) : n \in Len(op.path)..(Len(p) - 1)} : p \in under}
        IN /\ \A i \in 1..Len(files), j \in 1..Len(files) : i < j => Before(files[i], files[j])
           /\ Len(files) = (IF Cardinality(under) < MaxListed THEN Cardinality(under) ELSE MaxListed)
           /\ \A i \in 1..Len(files) : files[i] \in under
           /\ \A q \in under :
                 (\A i \in 1..Len(files) : files[i] # q) =>
                     \A i \in 1..Len(files) : Before(files[i], q)
           /\ {op.result.calls[i].path : i \in 1..Len(op.result.calls)} = dirs
           /\ Len(op.result.calls) = Cardinality(dirs)

\* more than 50 files in three levels, listed down to 50 files of two levels
\* after five get_contents calls
C20_Witness ==
    /\ Listed
    /\ op.path = <<>>
    /\ Len(op.result.content.files) = MaxListed
    /\ Len(op.result.content.files[1]) = 1
    /\ Len(op.result.content.files[MaxListed]) = 2
    /\ Len(op.result.calls) = 5
    /\ \E p \in DOMAIN TreeAt(host, DefaultBranch) : Len(p) = 3

====
